---- MODULE Spec2Model ----
(***************************************************************************)
(* The history store of the recipe assistant (services/storage): one       *)
(* localStorage slot holding the JSON text of the saved-recipe log, and    *)
(* the four operations on it: saveRecipeToHistory, getSavedRecipes,        *)
(* updateRecipeRating and clearHistory.                                    *)
(*                                                                         *)
(* Three specifications share the actions:                                 *)
(*   Spec      few saves, every payload, every rating, every fault, and    *)
(*             a slot that may start absent, empty or unparseable;         *)
(*   SpecLong  starts from an absent slot and runs past the 20-entry       *)
(*             limit with one payload and ratings of the oldest entries;   *)
(*   SpecDup   starts from a log with two entries under one identifier.    *)
(*                                                                         *)
(* SpecVideos is the video lookup of services/gemini (findRecipeVideos)    *)
(* on every short sequence of grounding chunks.                            *)
(*                                                                         *)
(* SpecTabs is two sessions on one slot, each mutation split at its read   *)
(* and its write.                                                          *)
(*                                                                         *)
(* SpecApp is the App component: handleSearch with its two service calls,  *)
(* the navigation handlers, loadSavedRecipe, handleRateRecipe and the      *)
(* online flag, over the same store.  SpecSession is the App in a session  *)
(* where no storage call fails, mounted on a log one short of the limit.   *)
(* SpecSearchLive is its search flow with the event loop's fairness.       *)
(*                                                                         *)
(* SpecDisplay is the hero image effect of RecipeDisplay.                  *)
(***************************************************************************)
EXTENDS Integers, Sequences, FiniteSets, TLC

VARIABLES
    storage,    \* the text held under STORAGE_KEY, as localStorage.getItem sees it
    nextId,     \* the identifier the next returned item gets (crypto.randomUUID)
    now,        \* the clock read by Date.now()
    appended,   \* items returned by saveRecipeToHistory since the slot was last removed, newest first
    last,       \* the last call: its inputs, the slot before it, what it returned
    chunks,     \* findRecipeVideos: the grounding chunks of the service's response
    lookup,     \* findRecipeVideos: where the call is, and what it returned
    tabs,       \* two sessions on one origin: each one's mutation, between its read and its write
    events,     \* the reads and writes of the two sessions, in the order they happened
    status,             \* App: LoadingState
    recipe,             \* App: the recipe in state, or NoRecipe
    videos,             \* App: the videos in state
    error,              \* App: the error message, or NoError
    isOnline,           \* App: the online flag
    savedRecipes,       \* App: the in-memory history list
    currentSavedId,     \* App: the identifier ratings go to, or NoSavedId
    currentUserRating,  \* App: the rating shown in the detail view
    searches,           \* App: the handleSearch calls suspended at their await
    started,            \* App: how many searches reached their service calls
    lastUi,             \* App: the last handler that ran, and what it met
    display,            \* RecipeDisplay: its props, its image state, its current effect
    imageRequests       \* RecipeDisplay: the fetchImage calls suspended at their await

storeVars == <<storage, nextId, now, appended, last>>
lookupVars == <<chunks, lookup>>
tabVars == <<tabs, events>>
appVars == <<status, recipe, videos, error, isOnline, savedRecipes, currentSavedId,
             currentUserRating, searches, started, lastUi>>
displayVars == <<display, imageRequests>>
vars == <<storeVars, lookupVars, tabVars, appVars, displayVars>>

\* what the store's calls, the video lookup and the sessions leave alone
besidesStore == <<lookupVars, tabVars, appVars, displayVars>>
besidesLookup == <<storeVars, tabVars, appVars, displayVars>>
besidesTabs == <<lookupVars, appVars, displayVars, appended, last>>
besidesApp == <<lookupVars, tabVars, displayVars>>
besidesDisplay == <<storeVars, lookupVars, tabVars, appVars>>

(***************************************************************************)
(* Bounds of the model and constants of the program.                       *)
(***************************************************************************)
HistoryLimit == 20       \* storage: history.length > 20 / slice(0, 20)
NoRating == 0            \* userRating absent (undefined): `saved.userRating || 0`
MaxSaves == 2            \* Spec: successful saves
MaxLongSaves == 22       \* SpecLong: successful saves
MaxLongRateId == 1       \* SpecLong: rating calls name the identifiers up to this one

\* a slip: a ten-point scale shown as five stars
StarsOutOfTen == {2, 4, 6, 8, 10}

Stars == 1..5            \* the five star buttons of the detail view
LongStars == {1, 5}

Payloads ==
    { [query |-> "q1", recipe |-> "r1", videos |-> <<>>],
      [query |-> "q2", recipe |-> "r2", videos |-> <<"v1">>] }
LongPayloads == { [query |-> "q1", recipe |-> "r1", videos |-> <<>>] }

SaveFaults == {"none", "getItem", "setItem"}
ListFaults == {"none", "getItem"}
RateFaults == {"none", "getItem", "setItem"}
ClearFaults == {"none", "removeItem"}

(***************************************************************************)
(* Stored texts.  getItem returns null for a missing key; "" is a stored   *)
(* empty string; a garbage text is one JSON.parse throws on.               *)
(***************************************************************************)
NullText == [kind |-> "null", items |-> <<>>]
EmptyText == [kind |-> "empty", items |-> <<>>]
GarbageText == [kind |-> "garbage", items |-> <<>>]

\* `existingHistoryJSON ? ... : ...` and `!existingHistoryJSON`: null and "" are falsy
Truthy(text) == text.kind \notin {"null", "empty"}

\* JSON.parse throws a SyntaxError on anything but JSON text
Parseable(text) == text.kind = "json"

\* JSON.stringify of one item: a property whose value is undefined is left out
ItemToJSON(item) ==
    IF item.userRating = NoRating
    THEN [id |-> item.id, timestamp |-> item.timestamp, query |-> item.query,
          recipe |-> item.recipe, videos |-> item.videos]
    ELSE item

\* JSON.parse of one item: reading a property that is not there gives undefined
ItemFromJSON(j) ==
    IF "userRating" \in DOMAIN j
    THEN j
    ELSE [id |-> j.id, timestamp |-> j.timestamp, query |-> j.query,
          recipe |-> j.recipe, videos |-> j.videos, userRating |-> NoRating]

Stringify(history) ==
    [kind |-> "json", items |-> [i \in 1..Len(history) |-> ItemToJSON(history[i])]]

Parse(text) == [i \in 1..Len(text.items) |-> ItemFromJSON(text.items[i])]

(***************************************************************************)
(* saveRecipeToHistory                                                     *)
(***************************************************************************)
\* a slip: the identifier taken from a coarse clock instead of randomUUID
NewItemClockId(id, timestamp, query, recipeData, videoData) ==
    [id |-> (timestamp \div 2) + 1, timestamp |-> timestamp, query |-> query,
     recipe |-> recipeData, videos |-> videoData, userRating |-> NoRating]

NewItem(id, timestamp, query, recipeData, videoData) ==
    [id |-> id, timestamp |-> timestamp, query |-> query, recipe |-> recipeData,
     videos |-> videoData, userRating |-> NoRating]

\* a slip: push instead of unshift
UnshiftPush(history, newItem) == history \o <<newItem>>

\* history.unshift(newItem)
Unshift(history, newItem) == <<newItem>> \o history

\* a slip: the limit off by one
TruncateLoose(history) ==
    IF Len(history) > HistoryLimit + 1 THEN SubSeq(history, 1, HistoryLimit + 1) ELSE history

\* a slip: slice(-20) keeps the tail
TruncateTail(history) ==
    IF Len(history) > HistoryLimit
    THEN SubSeq(history, Len(history) - HistoryLimit + 1, Len(history))
    ELSE history

\* if (history.length > 20) history = history.slice(0, 20)
Truncate(history) ==
    IF Len(history) > HistoryLimit THEN SubSeq(history, 1, HistoryLimit) ELSE history

\* a slip: the catch block resets the slot
SaveCaughtResets(text, newItem) ==
    [storage |-> NullText, outcome |-> "returned", logged |-> TRUE,
     retKind |-> "null", ret |-> <<>>]

\* the catch block of saveRecipeToHistory: console.error, return null
SaveCaught(text, newItem) ==
    [storage |-> text, outcome |-> "returned", logged |-> TRUE,
     retKind |-> "null", ret |-> <<>>]

\* a slip: JSON.parse guarded by its own try/catch that falls back to []
SaveResultGarbageAsEmpty(text, newItem, fault) ==
    IF fault = "getItem" THEN SaveCaught(text, newItem)
    ELSE LET existing == IF Truthy(text) /\ Parseable(text) THEN Parse(text) ELSE <<>>
             history == Truncate(Unshift(existing, newItem))
         IN  IF fault = "setItem" THEN SaveCaught(text, newItem)
             ELSE [storage |-> Stringify(history), outcome |-> "returned",
                   logged |-> FALSE, retKind |-> "item", ret |-> newItem]

\* the body of saveRecipeToHistory on the slot content `text`
SaveResult(text, newItem, fault) ==
    IF fault = "getItem" THEN SaveCaught(text, newItem)
    ELSE IF Truthy(text) /\ ~Parseable(text) THEN SaveCaught(text, newItem)
    ELSE LET existing == IF Truthy(text) THEN Parse(text) ELSE <<>>
             history == Truncate(Unshift(existing, newItem))
         IN  IF fault = "setItem" THEN SaveCaught(text, newItem)
             ELSE [storage |-> Stringify(history), outcome |-> "returned",
                   logged |-> FALSE, retKind |-> "item", ret |-> newItem]

\* A call that fails throws its newItem away: the identifier and the timestamp it
\* drew are seen by nobody, so nextId and now advance only when the item is returned.
SaveRecipeToHistory(query, recipeData, videoData, fault) ==
    LET newItem == NewItem(nextId, now, query, recipeData, videoData)
        r == SaveResult(storage, newItem, fault)
    IN  /\ storage' = r.storage
        /\ nextId' = IF r.retKind = "item" THEN nextId + 1 ELSE nextId
        /\ now' = IF r.retKind = "item" THEN now + 1 ELSE now
        /\ appended' = IF r.retKind = "item" THEN <<newItem>> \o appended ELSE appended
        /\ last' = [op |-> "append", fault |-> fault, pre |-> storage,
                    id |-> nextId, rating |-> NoRating,
                    outcome |-> r.outcome, logged |-> r.logged,
                    retKind |-> r.retKind, ret |-> r.ret]

(***************************************************************************)
(* getSavedRecipes                                                         *)
(***************************************************************************)
\* a slip: JSON.parse outside the try block
ListResultThrows(text, fault) ==
    IF fault = "getItem"
    THEN [outcome |-> "returned", logged |-> TRUE, retKind |-> "log", ret |-> <<>>]
    ELSE IF ~Truthy(text)
    THEN [outcome |-> "returned", logged |-> FALSE, retKind |-> "log", ret |-> <<>>]
    ELSE IF ~Parseable(text)
    THEN [outcome |-> "threw", logged |-> FALSE, retKind |-> "none", ret |-> <<>>]
    ELSE [outcome |-> "returned", logged |-> FALSE, retKind |-> "log", ret |-> Parse(text)]

\* the body of getSavedRecipes on the slot content `text`
ListResult(text, fault) ==
    IF fault = "getItem"
    THEN [outcome |-> "returned", logged |-> TRUE, retKind |-> "log", ret |-> <<>>]
    ELSE IF ~Truthy(text)
    THEN [outcome |-> "returned", logged |-> FALSE, retKind |-> "log", ret |-> <<>>]
    ELSE IF ~Parseable(text)
    THEN [outcome |-> "returned", logged |-> TRUE, retKind |-> "log", ret |-> <<>>]
    ELSE [outcome |-> "returned", logged |-> FALSE, retKind |-> "log", ret |-> Parse(text)]

GetSavedRecipes(fault) ==
    LET r == ListResult(storage, fault)
    IN  /\ last' = [op |-> "list", fault |-> fault, pre |-> storage,
                    id |-> 0, rating |-> NoRating,
                    outcome |-> r.outcome, logged |-> r.logged,
                    retKind |-> r.retKind, ret |-> r.ret]
        /\ UNCHANGED <<storage, nextId, now, appended>>

(***************************************************************************)
(* updateRecipeRating                                                      *)
(***************************************************************************)
\* a slip: `item.id = id` in the condition, an assignment that is always truthy
MapRatingAll(history, id, rating) ==
    [i \in 1..Len(history) |-> [history[i] EXCEPT !.id = id, !.userRating = rating]]

\* a slip: an upsert, which adds an entry when no identifier matches
MapRatingUpsert(history, id, rating) ==
    IF \E i \in 1..Len(history) : history[i].id = id
    THEN [i \in 1..Len(history) |->
            IF history[i].id = id
            THEN [history[i] EXCEPT !.userRating = rating]
            ELSE history[i]]
    ELSE <<[id |-> id, timestamp |-> 0, query |-> "", recipe |-> "", videos |-> <<>>,
            userRating |-> rating]>> \o history

\* a slip: findIndex and one replacement, which rates the first match only
MapRatingFirst(history, id, rating) ==
    [i \in 1..Len(history) |->
        IF history[i].id = id /\ \A j \in 1..(i - 1) : history[j].id # id
        THEN [history[i] EXCEPT !.userRating = rating]
        ELSE history[i]]

\* a slip: a second click on the same star takes the rating back
MapRatingToggle(history, id, rating) ==
    [i \in 1..Len(history) |->
        IF history[i].id = id
        THEN [history[i] EXCEPT !.userRating =
                 IF history[i].userRating = rating THEN NoRating ELSE rating]
        ELSE history[i]]

\* history.map(item => item.id === id ? { ...item, userRating: rating } : item)
MapRating(history, id, rating) ==
    [i \in 1..Len(history) |->
        IF history[i].id = id
        THEN [history[i] EXCEPT !.userRating = rating]
        ELSE history[i]]

\* a slip: the catch block stores the empty log it returns
RateCaughtEmpties(text) ==
    [storage |-> Stringify(<<>>), outcome |-> "returned", logged |-> TRUE,
     retKind |-> "log", ret |-> <<>>]

\* the catch block of updateRecipeRating: console.error, return []
RateCaught(text) ==
    [storage |-> text, outcome |-> "returned", logged |-> TRUE,
     retKind |-> "log", ret |-> <<>>]

RateResult(text, id, rating, fault) ==
    IF fault = "getItem" THEN RateCaught(text)
    ELSE IF ~Truthy(text)
    THEN [storage |-> text, outcome |-> "returned", logged |-> FALSE,
          retKind |-> "log", ret |-> <<>>]
    ELSE IF ~Parseable(text) THEN RateCaught(text)
    ELSE LET history == MapRating(Parse(text), id, rating)
         IN  IF fault = "setItem" THEN RateCaught(text)
             ELSE [storage |-> Stringify(history), outcome |-> "returned",
                   logged |-> FALSE, retKind |-> "log", ret |-> history]

UpdateRecipeRating(id, rating, fault) ==
    LET r == RateResult(storage, id, rating, fault)
    IN  /\ storage' = r.storage
        /\ last' = [op |-> "setRating", fault |-> fault, pre |-> storage,
                    id |-> id, rating |-> rating,
                    outcome |-> r.outcome, logged |-> r.logged,
                    retKind |-> r.retKind, ret |-> r.ret]
        /\ UNCHANGED <<nextId, now, appended>>

(***************************************************************************)
(* clearHistory: no try/catch around localStorage.removeItem               *)
(***************************************************************************)
\* a slip: removeItem under another key
RemoveItemOtherKey(text) == text

\* localStorage.removeItem(STORAGE_KEY)
RemoveItem(text) == NullText

ClearResult(text, fault) ==
    IF fault = "removeItem"
    THEN [storage |-> text, outcome |-> "threw", logged |-> FALSE,
          retKind |-> "none", ret |-> <<>>]
    ELSE [storage |-> RemoveItem(text), outcome |-> "returned", logged |-> FALSE,
          retKind |-> "undefined", ret |-> <<>>]

ClearHistory(fault) ==
    LET r == ClearResult(storage, fault)
    IN  /\ storage' = r.storage
        /\ appended' = IF r.outcome = "returned" THEN <<>> ELSE appended
        /\ last' = [op |-> "clear", fault |-> fault, pre |-> storage,
                    id |-> 0, rating |-> NoRating,
                    outcome |-> r.outcome, logged |-> r.logged,
                    retKind |-> r.retKind, ret |-> r.ret]
        /\ UNCHANGED <<nextId, now>>

(***************************************************************************)
(* findRecipeVideos (services/gemini)                                      *)
(***************************************************************************)
MaxVideos == 4           \* gemini: .slice(0, 4)
MaxChunks == 5           \* SpecVideos: grounding chunks in one response

NoUri == [host |-> "", path |-> ""]     \* chunk.web?.uri undefined
NoTitle == ""                           \* chunk.web?.title undefined

\* the chunks a response is made of: one URI under two titles, four more video
\* links, a page whose title says video, a page that is no video, a chunk without web
ChunkUniverse ==
    { [uri |-> [host |-> "youtube.com", path |-> "a"], title |-> "t1"],
      [uri |-> [host |-> "youtube.com", path |-> "a"], title |-> "t2"],
      [uri |-> [host |-> "youtube.com", path |-> "b"], title |-> "t1"],
      [uri |-> [host |-> "youtu.be", path |-> "c"], title |-> "t1"],
      [uri |-> [host |-> "vimeo.com", path |-> "d"], title |-> "t1"],
      [uri |-> [host |-> "example.com", path |-> "f"], title |-> "a video"],
      [uri |-> [host |-> "example.com", path |-> "g"], title |-> "t1"],
      [uri |-> NoUri, title |-> NoTitle] }

\* uri.includes("youtube.com") || includes("youtu.be") || includes("vimeo.com") || includes("tiktok.com")
IsVideoPlatform(uri) == uri.host \in {"youtube.com", "youtu.be", "vimeo.com", "tiktok.com"}

\* title.toLowerCase().includes("video")
TitleSaysVideo(title) == title \in {"a video"}

\* if (chunk.web?.uri && chunk.web?.title) and the platform filter
Accepted(chunk) ==
    /\ chunk.uri # NoUri
    /\ chunk.title # NoTitle
    /\ IsVideoPlatform(chunk.uri) \/ TitleSaysVideo(chunk.title)

\* results.push({ title, uri, source: uri.includes("youtube") ? "YouTube" : "Web" })
ToResult(chunk) ==
    [title |-> chunk.title, uri |-> chunk.uri,
     source |-> IF chunk.uri.host = "youtube.com" THEN "YouTube" ELSE "Web"]

\* chunks.forEach(...): the accepted chunks, in order
RECURSIVE Collect(_)
Collect(cs) ==
    IF cs = <<>> THEN <<>>
    ELSE LET rest == Collect(SubSeq(cs, 1, Len(cs) - 1))
             c == cs[Len(cs)]
         IN  IF Accepted(c) THEN Append(rest, ToResult(c)) ELSE rest

\* a slip: delete the key before setting it, which moves it to the end
MapSetMovesToEnd(entries, item) ==
    SelectSeq(entries, LAMBDA e : e.uri # item.uri) \o <<item>>

\* Map.prototype.set: a key that is there keeps its place and takes the new value
MapSet(entries, item) ==
    IF \E i \in 1..Len(entries) : entries[i].uri = item.uri
    THEN [i \in 1..Len(entries) |-> IF entries[i].uri = item.uri THEN item ELSE entries[i]]
    ELSE Append(entries, item)

\* Array.from(new Map(results.map(item => [item.uri, item])).values())
RECURSIVE DedupByUri(_)
DedupByUri(items) ==
    IF items = <<>> THEN <<>>
    ELSE MapSet(DedupByUri(SubSeq(items, 1, Len(items) - 1)), items[Len(items)])

\* .slice(0, 4)
SliceVideos(items) == SubSeq(items, 1, IF Len(items) < MaxVideos THEN Len(items) ELSE MaxVideos)

\* the body of findRecipeVideos: `answer` is what generateContent did
FindResult(answer, cs) ==
    IF answer = "throws" THEN <<>>
    ELSE IF answer = "no chunks" THEN SliceVideos(DedupByUri(<<>>))
    ELSE SliceVideos(DedupByUri(Collect(cs)))

\* the service adds one grounding chunk to the response it will give
GroundingChunk(chunk) ==
    /\ lookup.pc = "idle"
    /\ Len(chunks) < MaxChunks
    /\ chunks' = Append(chunks, chunk)
    /\ UNCHANGED <<lookup, besidesLookup>>

FindRecipeVideos(answer) ==
    /\ lookup.pc = "idle"
    /\ lookup' = [pc |-> answer, results |-> FindResult(answer, chunks)]
    /\ UNCHANGED <<chunks, besidesLookup>>

(***************************************************************************)
(* Two sessions on one storage origin.  Each mutation of the store is a    *)
(* getItem, a change of the parsed copy and a setItem of the whole log;    *)
(* another session's getItem or setItem can fall between the two.          *)
(***************************************************************************)
Tabs == {1, 2}

IdleTab == [pc |-> "idle", op |-> "none", copy |-> NullText, item |-> <<>>,
            id |-> 0, rating |-> NoRating]

\* what the tabs rate: the two stored entries, with one star or five
TabRatings == {[id |-> i, rating |-> r] : i \in {1, 2}, r \in {1, 5}}

\* another store: the slot read again at the write, and the change applied to that
BlobOfCurrent(tab, current) ==
    IF tab.op = "append"
    THEN SaveResult(current, tab.item[1], "none").storage
    ELSE RateResult(current, tab.id, tab.rating, "none").storage

\* the text a session writes: its change applied to the copy it read
Blob(tab, current) ==
    IF tab.op = "append"
    THEN SaveResult(tab.copy, tab.item[1], "none").storage
    ELSE RateResult(tab.copy, tab.id, tab.rating, "none").storage

\* saveRecipeToHistory up to its getItem
TabReadForAppend(t, query, recipeData, videoData) ==
    /\ tabs[t].pc = "idle"
    /\ tabs' = [tabs EXCEPT ![t] =
                  [pc |-> "read", op |-> "append", copy |-> storage,
                   item |-> <<NewItem(nextId, now, query, recipeData, videoData)>>,
                   id |-> nextId, rating |-> NoRating]]
    /\ nextId' = nextId + 1
    /\ now' = now + 1
    /\ events' = Append(events, [tab |-> t, what |-> "read"])
    /\ UNCHANGED <<storage, besidesTabs>>

\* updateRecipeRating up to its getItem
TabReadForRating(t, id, rating) ==
    /\ tabs[t].pc = "idle"
    /\ tabs' = [tabs EXCEPT ![t] =
                  [pc |-> "read", op |-> "setRating", copy |-> storage,
                   item |-> <<>>, id |-> id, rating |-> rating]]
    /\ events' = Append(events, [tab |-> t, what |-> "read"])
    /\ UNCHANGED <<storage, nextId, now, besidesTabs>>

\* the setItem that ends either call
TabWrite(t) ==
    /\ tabs[t].pc = "read"
    /\ storage' = Blob(tabs[t], storage)
    /\ tabs' = [tabs EXCEPT ![t].pc = "done"]
    /\ events' = Append(events, [tab |-> t, what |-> "write"])
    /\ UNCHANGED <<nextId, now, besidesTabs>>

(***************************************************************************)
(* App: the search flow (handleSearch), the saved list and the rating.     *)
(* A recipe is on screen when status is SUCCESS and recipe is not null.    *)
(***************************************************************************)
MaxSearches == 2         \* SpecApp: searches that reach their service calls
NoSavedId == 0           \* currentSavedId undefined

NoRecipe == "null"
NoError == "null"
OfflineMessage == "You are offline. Please check your internet connection or view saved recipes."
FailedMessage == "Failed to generate recipe. Please try again."

Texts == {"", "q1"}              \* the text field (or the dish name) at a submit
AppSaveFaults == {"none", "setItem"}
AppStars == {5}

\* what the video service answers with in SpecApp, when it answers
AppChunks == << [uri |-> [host |-> "youtube.com", path |-> "a"], title |-> "t1"] >>

\* what generateRecipe resolves with: one recipe for each query
RecipeFor(query) == IF query = "q1" THEN "r1" ELSE "r2"

NoHandler == [handler |-> "none", decision |-> "", blank |-> FALSE]

Displayed == status = "SUCCESS" /\ recipe # NoRecipe

UiEvent(name) == [handler |-> name, decision |-> "", blank |-> FALSE]

\* !searchQuery.trim()
Blank(text) == text \in {"", " "}

\* the query handleSearch builds: the ingredient list joined, or the text
SearchQuery(mode, ingredientsEmpty, text) ==
    IF mode = "ingredients" THEN (IF ingredientsEmpty THEN "" ELSE "1 cup rice") ELSE text

\* a slip: the offline check left out
SubmitDecisionNoOfflineCheck(mode, ingredientsEmpty, text, online) ==
    IF mode = "ingredients" /\ ingredientsEmpty THEN "ignored"
    ELSE IF Blank(SearchQuery(mode, ingredientsEmpty, text)) THEN "ignored"
    ELSE "start"

\* the early returns of handleSearch, in their order
SubmitDecision(mode, ingredientsEmpty, text, online) ==
    IF mode = "ingredients" /\ ingredientsEmpty THEN "ignored"
    ELSE IF Blank(SearchQuery(mode, ingredientsEmpty, text)) THEN "ignored"
    ELSE IF ~online THEN "offline"
    ELSE "start"

\* handleSearch up to its await.  The form and the dish cards are in the idle view.
HandleSearch(mode, ingredientsEmpty, text) ==
    LET decision == SubmitDecision(mode, ingredientsEmpty, text, isOnline)
        search == [query |-> SearchQuery(mode, ingredientsEmpty, text), rc |-> "pending",
                   recipe |-> NoRecipe, vc |-> "pending", answer |-> "", videos |-> <<>>]
    IN  /\ status = "IDLE"
        /\ decision = "start" => started < MaxSearches
        /\ lastUi' = [handler |-> "handleSearch", decision |-> decision,
                      blank |-> Blank(SearchQuery(mode, ingredientsEmpty, text))]
        /\ IF decision = "ignored"
           THEN UNCHANGED <<status, recipe, videos, error, currentSavedId,
                            currentUserRating, searches, started>>
           ELSE IF decision = "offline"
           THEN /\ error' = OfflineMessage
                /\ status' = "ERROR"
                /\ UNCHANGED <<recipe, videos, currentSavedId, currentUserRating,
                               searches, started>>
           ELSE /\ status' = "LOADING"
                /\ error' = NoError
                /\ recipe' = NoRecipe
                /\ videos' = <<>>
                /\ currentSavedId' = NoSavedId
                /\ currentUserRating' = 0
                /\ searches' = Append(searches, search)
                /\ started' = started + 1
        /\ UNCHANGED <<isOnline, savedRecipes, storeVars, besidesApp>>

\* generateRecipe settles: it resolves with a recipe or rejects
RecipeCallSettles(n, outcome) ==
    /\ n \in 1..Len(searches)
    /\ searches[n].rc = "pending"
    /\ searches' = [searches EXCEPT ![n].rc = outcome,
                                    ![n].recipe = IF outcome = "resolved"
                                                  THEN RecipeFor(searches[n].query)
                                                  ELSE NoRecipe]
    /\ UNCHANGED lastUi
    /\ UNCHANGED <<status, recipe, videos, error, isOnline, savedRecipes, currentSavedId,
                   currentUserRating, started, storeVars, besidesApp>>

\* a slip: findRecipeVideos rethrows from its catch block
VideoOutcomeRethrows(answer, cs) ==
    IF answer = "throws"
    THEN [state |-> "rejected", value |-> <<>>]
    ELSE [state |-> "resolved", value |-> FindResult(answer, cs)]

\* the promise of findRecipeVideos: its catch block returns [], so it always resolves
VideoOutcome(answer, cs) == [state |-> "resolved", value |-> FindResult(answer, cs)]

\* findRecipeVideos settles
VideoCallSettles(n, answer, cs) ==
    /\ n \in 1..Len(searches)
    /\ searches[n].vc = "pending"
    /\ searches' = [searches EXCEPT ![n].vc = VideoOutcome(answer, cs).state,
                                    ![n].answer = answer,
                                    ![n].videos = VideoOutcome(answer, cs).value]
    /\ UNCHANGED lastUi
    /\ UNCHANGED <<status, recipe, videos, error, isOnline, savedRecipes, currentSavedId,
                   currentUserRating, started, storeVars, besidesApp>>

\* a slip: Promise.any, which is fulfilled by the first call that resolves
JoinedAny(rc, vc) ==
    IF rc = "resolved" \/ vc = "resolved" THEN "fulfilled"
    ELSE IF rc = "rejected" /\ vc = "rejected" THEN "rejected"
    ELSE "pending"

\* Promise.all of the two calls: rejected once one is, fulfilled once both are
Joined(rc, vc) ==
    IF rc = "rejected" \/ vc = "rejected" THEN "rejected"
    ELSE IF rc = "resolved" /\ vc = "resolved" THEN "fulfilled"
    ELSE "pending"

RemoveAt(seq, n) == SubSeq(seq, 1, n - 1) \o SubSeq(seq, n + 1, Len(seq))

\* a slip: a failed save thrown into the catch block of handleSearch
AfterSaveAborts(search, saved) ==
    IF saved.retKind = "item"
    THEN [status |-> "SUCCESS", error |-> error,
          savedRecipes |-> <<saved.ret>> \o savedRecipes, currentSavedId |-> saved.ret.id]
    ELSE [status |-> "ERROR", error |-> FailedMessage,
          savedRecipes |-> savedRecipes, currentSavedId |-> currentSavedId]

\* handleSearch after saveRecipeToHistory returned `saved`
AfterSave(search, saved) ==
    IF saved.retKind = "item"
    THEN [status |-> "SUCCESS", error |-> error,
          savedRecipes |-> <<saved.ret>> \o savedRecipes, currentSavedId |-> saved.ret.id]
    ELSE [status |-> "SUCCESS", error |-> error,
          savedRecipes |-> savedRecipes, currentSavedId |-> currentSavedId]

\* handleSearch from the fulfilled await to its end
SearchFulfilled(n, fault) ==
    /\ n \in 1..Len(searches)
    /\ Joined(searches[n].rc, searches[n].vc) = "fulfilled"
    /\ LET search == searches[n]
           saved == SaveResult(storage, NewItem(nextId, now, search.query, search.recipe,
                                                search.videos), fault)
           after == AfterSave(search, saved)
       IN  /\ SaveRecipeToHistory(search.query, search.recipe, search.videos, fault)
           /\ recipe' = search.recipe
           /\ videos' = search.videos
           /\ status' = after.status
           /\ error' = after.error
           /\ savedRecipes' = after.savedRecipes
           /\ currentSavedId' = after.currentSavedId
           /\ lastUi' = UiEvent("searchFulfilled")
    /\ searches' = RemoveAt(searches, n)
    /\ UNCHANGED <<isOnline, currentUserRating, started, besidesApp>>

\* handleSearch from the rejected await to its end: the catch block
SearchRejected(n) ==
    /\ n \in 1..Len(searches)
    /\ Joined(searches[n].rc, searches[n].vc) = "rejected"
    /\ error' = FailedMessage
    /\ status' = "ERROR"
    /\ lastUi' = UiEvent("searchRejected")
    /\ searches' = RemoveAt(searches, n)
    /\ UNCHANGED <<recipe, videos, isOnline, savedRecipes, currentSavedId,
                   currentUserRating, started, storeVars, besidesApp>>

\* the logo (always there) and the New Search button (in the detail view):
\* setRecipe(null); setStatus(IDLE)
BackToIdle(viaLogo) ==
    /\ viaLogo \/ status = "SUCCESS"
    /\ recipe' = NoRecipe
    /\ status' = "IDLE"
    /\ lastUi' = UiEvent(IF viaLogo THEN "logo" ELSE "newSearch")
    /\ UNCHANGED <<videos, error, isOnline, savedRecipes, currentSavedId,
                   currentUserRating, searches, started, storeVars, besidesApp>>

\* Back to Home in the error view: setStatus(IDLE)
BackToHome ==
    /\ status = "ERROR"
    /\ status' = "IDLE"
    /\ lastUi' = UiEvent("backToHome")
    /\ UNCHANGED <<recipe, videos, error, isOnline, savedRecipes, currentSavedId,
                   currentUserRating, searches, started, storeVars, besidesApp>>

\* a card of the saved list, which is in the idle view
LoadSavedRecipe(i) ==
    /\ status = "IDLE"
    /\ i \in 1..Len(savedRecipes)
    /\ recipe' = savedRecipes[i].recipe
    /\ videos' = savedRecipes[i].videos
    /\ currentSavedId' = savedRecipes[i].id
    /\ currentUserRating' = savedRecipes[i].userRating
    /\ status' = "SUCCESS"
    /\ lastUi' = UiEvent("loadSavedRecipe")
    /\ UNCHANGED <<error, isOnline, savedRecipes, searches, started, storeVars, besidesApp>>

\* a star of the rating card, which is there when a recipe is on screen with a
\* currentSavedId
HandleRateRecipe(rating, fault) ==
    /\ Displayed
    /\ currentSavedId # NoSavedId
    /\ UpdateRecipeRating(currentSavedId, rating, fault)
    /\ savedRecipes' = RateResult(storage, currentSavedId, rating, fault).ret
    /\ currentUserRating' = rating
    /\ lastUi' = UiEvent("handleRateRecipe")
    /\ UNCHANGED <<status, recipe, videos, error, isOnline, currentSavedId, searches,
                   started, besidesApp>>

\* the window's online and offline events
NetworkChange(online) ==
    /\ isOnline # online
    /\ isOnline' = online
    /\ UNCHANGED lastUi
    /\ UNCHANGED <<status, recipe, videos, error, savedRecipes, currentSavedId,
                   currentUserRating, searches, started, storeVars, besidesApp>>

(***************************************************************************)
(* RecipeDisplay: the hero image effect.  The effect runs at mount and     *)
(* whenever recipe.title or isOnline changed; each run has its own         *)
(* isMounted flag, which the cleanup of that run sets to false.            *)
(***************************************************************************)
MaxEffects == 4          \* SpecDisplay: runs of the effect

Titles == {"t1", "t2"}

NoImage == <<"none", "">>
Placeholder(title) == <<"placeholder", title>>

\* what generateDishImage resolves with: a data URL, or null (nothing in the
\* response, or an error caught inside)
ImageResults(title) == {<<"ai", title>>, NoImage}

NoDisplay ==
    [mounted |-> FALSE, title |-> "", isOnline |-> FALSE, heroImage |-> NoImage,
     isGeneratingImage |-> TRUE, effect |-> 0, lastResult |-> "none"]

\* no detail view on screen and no image request under way
DisplayIdle == display = NoDisplay /\ imageRequests = <<>>

\* the cleanup of the current effect: isMounted = false in its closure
Cleanup(requests) == [k \in 1..Len(requests) |-> [requests[k] EXCEPT !.isMounted = FALSE]]

\* One run of the effect, up to the await of fetchImage or, offline, to its end:
\* setIsGeneratingImage(true), setHeroImage(placeholder), and offline, with no await
\* in between, `if (isMounted) setIsGeneratingImage(false)`.
RunEffect(title, online, effect) ==
    /\ display' = [mounted |-> TRUE, title |-> title, isOnline |-> online,
                   heroImage |-> Placeholder(title),
                   isGeneratingImage |-> online,
                   effect |-> effect, lastResult |-> display.lastResult]
    /\ imageRequests' =
          IF online
          THEN Append(Cleanup(imageRequests),
                      [title |-> title, effect |-> effect, isMounted |-> TRUE])
          ELSE Cleanup(imageRequests)

\* the detail view comes on screen
Mount(title, online) ==
    /\ ~display.mounted
    /\ display.effect < MaxEffects
    /\ RunEffect(title, online, display.effect + 1)
    /\ UNCHANGED besidesDisplay

\* a render with another recipe.title or another isOnline: cleanup, then the effect
PropsChange(title, online) ==
    /\ display.mounted
    /\ <<title, online>> # <<display.title, display.isOnline>>
    /\ display.effect < MaxEffects
    /\ RunEffect(title, online, display.effect + 1)
    /\ UNCHANGED besidesDisplay

\* the detail view leaves the screen: cleanup, and the component's state is gone
Unmount ==
    /\ display.mounted
    /\ display' = [NoDisplay EXCEPT !.effect = display.effect,
                                    !.lastResult = display.lastResult]
    /\ imageRequests' = Cleanup(imageRequests)
    /\ UNCHANGED besidesDisplay

\* a slip: the result applied without looking at isMounted
AppliesAlways(request) == TRUE

\* `if (isMounted ...)`
Applies(request) == request.isMounted

\* generateDishImage settles and fetchImage runs to its end
ImageSettles(k, aiImage) ==
    /\ k \in 1..Len(imageRequests)
    /\ aiImage \in ImageResults(imageRequests[k].title)
    /\ display' =
          IF Applies(imageRequests[k])
          THEN [display EXCEPT
                  !.heroImage = IF aiImage # NoImage THEN aiImage ELSE @,
                  !.isGeneratingImage = FALSE,
                  !.lastResult = "applied"]
          ELSE [display EXCEPT !.lastResult = "dropped"]
    /\ imageRequests' = RemoveAt(imageRequests, k)
    /\ UNCHANGED besidesDisplay

(***************************************************************************)
(* Specifications                                                          *)
(***************************************************************************)
NoCall ==
    [op |-> "none", fault |-> "none", pre |-> NullText, id |-> 0, rating |-> NoRating,
     outcome |-> "returned", logged |-> FALSE, retKind |-> "none", ret |-> <<>>]

\* what a later getSavedRecipes() returns when its read does not throw
ListNow == ListResult(storage, "none").ret

\* identifiers a rating call may name: those handed out so far, and one never handed out
KnownIds == 1..nextId

\* SpecLong: the oldest identifiers, and one never handed out
LongRateIds == (1..MaxLongRateId) \cup {nextId}

\* the video lookup before any call
LookupIdle == chunks = <<>> /\ lookup = [pc |-> "idle", results |-> <<>>]

\* the App before it is mounted
AppIdle ==
    /\ status = "IDLE"
    /\ recipe = NoRecipe
    /\ videos = <<>>
    /\ error = NoError
    /\ isOnline = TRUE
    /\ savedRecipes = <<>>
    /\ currentSavedId = NoSavedId
    /\ currentUserRating = 0
    /\ searches = <<>>
    /\ started = 0
    /\ lastUi = NoHandler

\* two sessions with no mutation under way
TabsIdle == tabs = [t \in Tabs |-> IdleTab] /\ events = <<>>

Init ==
    /\ storage \in {NullText, EmptyText, GarbageText}
    /\ nextId = 1
    /\ now = 0
    /\ appended = <<>>
    /\ last = NoCall
    /\ LookupIdle
    /\ TabsIdle
    /\ DisplayIdle
    /\ AppIdle

Next ==
    /\ \/ \E p \in Payloads, f \in SaveFaults :
             nextId <= MaxSaves /\ SaveRecipeToHistory(p.query, p.recipe, p.videos, f)
       \/ \E f \in ListFaults : GetSavedRecipes(f)
       \/ \E id \in KnownIds, rating \in Stars, f \in RateFaults :
             UpdateRecipeRating(id, rating, f)
       \/ \E f \in ClearFaults : ClearHistory(f)
    /\ UNCHANGED besidesStore

Spec == Init /\ [][Next]_vars

InitLong ==
    /\ storage = NullText
    /\ nextId = 1
    /\ now = 0
    /\ appended = <<>>
    /\ last = NoCall
    /\ LookupIdle
    /\ TabsIdle
    /\ DisplayIdle
    /\ AppIdle

NextLong ==
    /\ \/ \E p \in LongPayloads, f \in SaveFaults :
             nextId <= MaxLongSaves /\ SaveRecipeToHistory(p.query, p.recipe, p.videos, f)
       \/ \E f \in ListFaults : GetSavedRecipes(f)
       \/ \E id \in LongRateIds, rating \in LongStars, f \in RateFaults :
             UpdateRecipeRating(id, rating, f)
       \/ \E f \in ClearFaults : ClearHistory(f)
    /\ UNCHANGED besidesStore

SpecLong == InitLong /\ [][NextLong]_vars

\* Logs that something other than this program left in the slot: two entries under
\* one identifier, the later one unrated or already rated.
DupLogs ==
    { << [id |-> 1, timestamp |-> 1, query |-> "q2", recipe |-> "r2",
          videos |-> <<"v1">>, userRating |-> NoRating],
         [id |-> 1, timestamp |-> 0, query |-> "q1", recipe |-> "r1",
          videos |-> <<>>, userRating |-> r] >> : r \in {NoRating, 3} }

InitDup ==
    /\ storage \in {Stringify(d) : d \in DupLogs}
    /\ nextId = 2
    /\ now = 2
    /\ appended = <<>>
    /\ last = NoCall
    /\ LookupIdle
    /\ TabsIdle
    /\ DisplayIdle
    /\ AppIdle

SpecDup == InitDup /\ [][Next]_vars

InitVideos == InitLong

NextVideos ==
    \/ \E chunk \in ChunkUniverse : GroundingChunk(chunk)
    \/ \E answer \in {"chunks", "no chunks", "throws"} : FindRecipeVideos(answer)

SpecVideos == InitVideos /\ [][NextVideos]_vars

\* the log two saves leave: entries 2 and 1, the older one unrated or rated
TabLogs ==
    { << NewItem(2, 1, "q2", "r2", <<"v1">>),
         [NewItem(1, 0, "q1", "r1", <<>>) EXCEPT !.userRating = r] >> : r \in {NoRating, 3} }

InitTabs ==
    /\ storage \in {Stringify(h) : h \in TabLogs}
    /\ nextId = 3
    /\ now = 2
    /\ appended = <<>>
    /\ last = NoCall
    /\ LookupIdle
    /\ TabsIdle
    /\ DisplayIdle
    /\ AppIdle

NextTabs ==
    \/ \E t \in Tabs, p \in Payloads : TabReadForAppend(t, p.query, p.recipe, p.videos)
    \/ \E t \in Tabs, m \in TabRatings : TabReadForRating(t, m.id, m.rating)
    \/ \E t \in Tabs : TabWrite(t)

SpecTabs == InitTabs /\ [][NextTabs]_vars

\* the App right after its mount effect on an absent slot: the saved list is what
\* getSavedRecipes returned
InitApp ==
    /\ InitLong
    /\ savedRecipes = ListResult(storage, "none").ret

NextApp ==
    \/ \E mode \in {"dish", "ingredients"}, ingredientsEmpty \in BOOLEAN, text \in Texts :
          HandleSearch(mode, ingredientsEmpty, text)
    \/ \E n \in 1..MaxSearches, outcome \in {"resolved", "rejected"} :
          RecipeCallSettles(n, outcome)
    \/ \E n \in 1..MaxSearches, answer \in {"chunks", "throws"} :
          VideoCallSettles(n, answer, AppChunks)
    \/ \E n \in 1..MaxSearches, f \in AppSaveFaults : SearchFulfilled(n, f)
    \/ \E n \in 1..MaxSearches : SearchRejected(n)
    \/ \E viaLogo \in BOOLEAN : BackToIdle(viaLogo)
    \/ BackToHome
    \/ \E i \in 1..MaxSearches : LoadSavedRecipe(i)
    \/ \E rating \in AppStars, f \in AppSaveFaults : HandleRateRecipe(rating, f)
    \/ \E online \in BOOLEAN : NetworkChange(online)

SpecApp == InitApp /\ [][NextApp]_vars

\* the search flow of the App alone, while it stays online: no saved recipe is opened
\* and none is rated
NextSearch ==
    \/ \E mode \in {"dish", "ingredients"}, ingredientsEmpty \in BOOLEAN, text \in Texts :
          HandleSearch(mode, ingredientsEmpty, text)
    \/ \E n \in 1..MaxSearches, outcome \in {"resolved", "rejected"} :
          RecipeCallSettles(n, outcome)
    \/ \E n \in 1..MaxSearches, answer \in {"chunks", "throws"} :
          VideoCallSettles(n, answer, AppChunks)
    \/ \E n \in 1..MaxSearches, f \in AppSaveFaults : SearchFulfilled(n, f)
    \/ \E n \in 1..MaxSearches : SearchRejected(n)
    \/ \E viaLogo \in BOOLEAN : BackToIdle(viaLogo)
    \/ BackToHome

\* The App on the event loop: a handleSearch call whose await has settled is resumed.
\* Nothing makes a service call settle (no timeout), so no fairness is asked of them.
Resumed ==
    /\ WF_vars(\E n \in 1..MaxSearches, f \in AppSaveFaults : SearchFulfilled(n, f))
    /\ WF_vars(\E n \in 1..MaxSearches : SearchRejected(n))

SpecSearchLive == InitApp /\ [][NextSearch]_vars /\ Resumed

InitDisplay == InitLong

NextDisplay ==
    \/ \E title \in Titles, online \in BOOLEAN : Mount(title, online)
    \/ \E title \in Titles, online \in BOOLEAN : PropsChange(title, online)
    \/ Unmount
    \/ \E k \in 1..MaxEffects, aiImage \in UNION {ImageResults(t) : t \in Titles} :
          ImageSettles(k, aiImage)

SpecDisplay == InitDisplay /\ [][NextDisplay]_vars

\* the log earlier sessions left: one entry short of the limit, newest first
SessionLog ==
    [i \in 1..(HistoryLimit - 1) |->
        NewItem(HistoryLimit - i, HistoryLimit - 1 - i, "q1", "r1", <<>>)]

\* the App right after its mount effect on that log
InitSession ==
    /\ storage = Stringify(SessionLog)
    /\ nextId = HistoryLimit
    /\ now = HistoryLimit - 1
    /\ appended = SessionLog
    /\ last = NoCall
    /\ LookupIdle
    /\ TabsIdle
    /\ DisplayIdle
    /\ status = "IDLE"
    /\ recipe = NoRecipe
    /\ videos = <<>>
    /\ error = NoError
    /\ isOnline = TRUE
    /\ savedRecipes = ListResult(storage, "none").ret
    /\ currentSavedId = NoSavedId
    /\ currentUserRating = 0
    /\ searches = <<>>
    /\ started = 0
    /\ lastUi = NoHandler

\* one session of the App in which no storage call fails
NextSession ==
    \/ \E mode \in {"dish", "ingredients"}, ingredientsEmpty \in BOOLEAN, text \in Texts :
          HandleSearch(mode, ingredientsEmpty, text)
    \/ \E n \in 1..MaxSearches, outcome \in {"resolved", "rejected"} :
          RecipeCallSettles(n, outcome)
    \/ \E n \in 1..MaxSearches, answer \in {"chunks", "throws"} :
          VideoCallSettles(n, answer, AppChunks)
    \/ \E n \in 1..MaxSearches : SearchFulfilled(n, "none")
    \/ \E n \in 1..MaxSearches : SearchRejected(n)
    \/ \E viaLogo \in BOOLEAN : BackToIdle(viaLogo)
    \/ BackToHome
    \/ \E i \in 1..MaxSearches : LoadSavedRecipe(i)
    \/ \E rating \in AppStars : HandleRateRecipe(rating, "none")
    \/ \E online \in BOOLEAN : NetworkChange(online)

SpecSession == InitSession /\ [][NextSession]_vars

(***************************************************************************)
(* Properties                                                              *)
(***************************************************************************)
\* what getSavedRecipes() returned on the slot before the last call, read without fault
ListBefore == ListResult(last.pre, "none").ret

Unrated(item) == [item EXCEPT !.userRating = NoRating]

Ids(history) == [i \in 1..Len(history) |-> history[i].id]

AppendReturnedItem == last.op = "append" /\ last.retKind = "item"

\* C1: starting from an absent slot, after any sequence of saveRecipeToHistory,
\* updateRecipeRating and clearHistory calls, the stored log has at most 20 entries.
C1_LogAtMostLimit == Len(storage.items) <= HistoryLimit

\* a save onto a full log: the 21st or later entry since the slot was removed
C1_Witness ==
    /\ AppendReturnedItem
    /\ Len(appended) > HistoryLimit
    /\ Len(storage.items) = HistoryLimit

\* C2: after more than 20 successful saves with no clear in between, getSavedRecipes
\* returns exactly 20 entries, the 20 most recently saved ones, newest first;
\* saving s1..s21 onto an absent slot gives [s21, s20, ..., s2].
C2_MostRecentKept ==
    Len(appended) > HistoryLimit =>
        /\ Len(ListNow) = HistoryLimit
        /\ \A i \in 1..HistoryLimit : Unrated(ListNow[i]) = appended[i]
        /\ (Len(appended) = HistoryLimit + 1 /\ nextId = HistoryLimit + 2) =>
               Ids(ListNow) = [i \in 1..HistoryLimit |-> HistoryLimit + 2 - i]

\* s1..s21 saved in order, s1 evicted
C2_Witness ==
    /\ Len(appended) = HistoryLimit + 1
    /\ nextId = HistoryLimit + 2
    /\ Len(ListNow) = HistoryLimit
    /\ ListNow[1].id = HistoryLimit + 1
    /\ ListNow[HistoryLimit].id = 2

\* C3: a successful save returns the created entry, and a getSavedRecipes right after
\* it has that entry as its first element, also when the log was full.
C3_NewestFirst ==
    AppendReturnedItem =>
        /\ last.ret.id = last.id
        /\ last.ret.userRating = NoRating
        /\ Len(ListNow) >= 1
        /\ ListNow[1] = last.ret

\* a successful save onto a full log of 20 entries
C3_Witness ==
    /\ AppendReturnedItem
    /\ Len(last.pre.items) = HistoryLimit
    /\ ListNow[1] = last.ret

\* the last call is an updateRecipeRating that met no storage fault and whose
\* identifier is in the stored log
RateOfPresentId ==
    /\ last.op = "setRating"
    /\ last.fault = "none"
    /\ \E i \in 1..Len(ListBefore) : ListBefore[i].id = last.id

\* C4: updateRecipeRating(id, r) for an id in the stored log changes only the
\* userRating of the entry with that id: the log length, the position of every
\* entry, every other entry and every other field of the matching entry are kept.
C4_OnlyRatingChanges ==
    RateOfPresentId =>
        /\ Len(ListNow) = Len(ListBefore)
        /\ \A i \in 1..Len(ListBefore) :
              /\ ListNow[i].id = ListBefore[i].id
              /\ ListNow[i].timestamp = ListBefore[i].timestamp
              /\ ListNow[i].query = ListBefore[i].query
              /\ ListNow[i].recipe = ListBefore[i].recipe
              /\ ListNow[i].videos = ListBefore[i].videos
              /\ ListNow[i].userRating =
                    IF ListBefore[i].id = last.id
                    THEN last.rating
                    ELSE ListBefore[i].userRating

\* a rating that changes one of two stored entries
C4_Witness ==
    /\ RateOfPresentId
    /\ Len(ListBefore) >= 2
    /\ ListNow # ListBefore

\* the last call is an updateRecipeRating that met no storage fault and whose
\* identifier is not in the stored log
RateOfMissingId ==
    /\ last.op = "setRating"
    /\ last.fault = "none"
    /\ \A i \in 1..Len(ListBefore) : ListBefore[i].id # last.id

\* C5: updateRecipeRating(id, r) for an id that is not in the stored log (the slot
\* may be absent) does not signal an error, returns the current log unchanged and
\* leaves what getSavedRecipes returns unchanged.
C5_MissingIdIsNoOp ==
    RateOfMissingId =>
        /\ last.outcome = "returned"
        /\ last.retKind = "log"
        /\ last.ret = ListBefore
        /\ ListNow = ListBefore
        /\ Parseable(last.pre) \/ ~Truthy(last.pre) => ~last.logged

\* a rating for an identifier that a non-empty log does not hold
C5_Witness ==
    /\ RateOfMissingId
    /\ Len(ListBefore) >= 1

\* the last call is a clearHistory whose removeItem was carried out
Cleared == last.op = "clear" /\ last.fault = "none"

\* C6: clearHistory followed by getSavedRecipes gives the empty sequence, and
\* clearHistory on a slot that is already absent changes nothing and does not error.
C6_ClearEmpties ==
    Cleared =>
        /\ last.outcome = "returned"
        /\ ListNow = <<>>
        /\ storage = NullText
        /\ last.pre = NullText => storage = last.pre

\* a clear of a non-empty log
C6_Witness ==
    /\ Cleared
    /\ Len(ListBefore) >= 1

\* the last call is a saveRecipeToHistory whose read, parse or write failed
AppendFailed ==
    /\ last.op = "append"
    /\ \/ last.fault \in {"getItem", "setItem"}
       \/ Truthy(last.pre) /\ ~Parseable(last.pre)

\* C7: when a storage read, parse or write fails during saveRecipeToHistory, it
\* returns null and the slot holds exactly what it held before the call.
C7_FailedAppendChangesNothing ==
    AppendFailed =>
        /\ last.outcome = "returned"
        /\ last.retKind = "null"
        /\ storage = last.pre

\* a failed write onto a non-empty log
C7_Witness ==
    /\ AppendFailed
    /\ last.fault = "setItem"
    /\ Len(ListBefore) >= 1

\* the last call is a saveRecipeToHistory that met no storage fault
AppendNoFault == last.op = "append" /\ last.fault = "none"

\* C8 as stated: saveRecipeToHistory treats an absent slot and unparseable content
\* alike as an empty log: it succeeds and the stored log is the one new entry.
C8_AsStated ==
    (AppendNoFault /\ last.pre \in {NullText, GarbageText}) =>
        /\ last.retKind = "item"
        /\ storage = Stringify(<<last.ret>>)

\* C8 amended: saveRecipeToHistory treats an absent slot (and a stored empty string)
\* as an empty log: it succeeds and the stored log is the one new entry; on
\* unparseable content it returns null and leaves the content as it is.
C8_AbsentIsEmptyGarbageFails ==
    /\ (AppendNoFault /\ last.pre \in {NullText, EmptyText}) =>
          /\ last.retKind = "item"
          /\ storage = Stringify(<<last.ret>>)
          /\ ListNow = <<last.ret>>
    /\ (AppendNoFault /\ last.pre = GarbageText) =>
          /\ last.retKind = "null"
          /\ storage = GarbageText

\* a save onto unparseable content
C8_Witness == AppendNoFault /\ last.pre = GarbageText

\* C9: getSavedRecipes never fails outward and never modifies the slot: it returns
\* the empty sequence when the slot is absent, when its content cannot be parsed and
\* when reading throws; otherwise it returns the stored log in stored order.
C9_ListNeverFails ==
    last.op = "list" =>
        /\ last.outcome = "returned"
        /\ last.retKind = "log"
        /\ storage = last.pre
        /\ (last.fault = "getItem" \/ last.pre.kind # "json") => last.ret = <<>>
        /\ (last.fault = "none" /\ last.pre.kind = "json") =>
              /\ Len(last.ret) = Len(last.pre.items)
              /\ \A i \in 1..Len(last.ret) : ItemToJSON(last.ret[i]) = last.pre.items[i]

\* a read of unparseable content
C9_Witness ==
    /\ last.op = "list"
    /\ last.fault = "none"
    /\ last.pre = GarbageText
    /\ last.ret = <<>>

\* C10: no operation lets a storage exception escape to its caller.
C10_NoExceptionEscapes == last.outcome = "returned"

\* the last call is an updateRecipeRating whose read, parse or write failed
RateFailed ==
    /\ last.op = "setRating"
    /\ \/ last.fault \in {"getItem", "setItem"}
       \/ Truthy(last.pre) /\ ~Parseable(last.pre)

\* C11: when a storage read, parse or write fails during updateRecipeRating, what
\* the caller receives differs from every successful result, in particular from the
\* successful result on an empty log, and the stored log is unchanged.
C11_FailureDistinguishable ==
    RateFailed =>
        /\ storage = last.pre
        /\ \A t \in {NullText, EmptyText} :
              LET ok == RateResult(t, last.id, last.rating, "none")
              IN  <<last.outcome, last.retKind, last.ret>> # <<ok.outcome, ok.retKind, ok.ret>>

\* the last call is an updateRecipeRating that met no storage fault, for an
\* identifier that several entries of the stored log carry
RateOfDuplicatedId ==
    /\ last.op = "setRating"
    /\ last.fault = "none"
    /\ Cardinality({i \in 1..Len(ListBefore) : ListBefore[i].id = last.id}) >= 2

FirstMatch(history, id) ==
    CHOOSE i \in 1..Len(history) :
        history[i].id = id /\ \A j \in 1..(i - 1) : history[j].id # id

\* C12 as stated: with several entries under one identifier, updateRecipeRating
\* updates the userRating of the first of them only and leaves the later ones as
\* they were.
C12_AsStated ==
    RateOfDuplicatedId =>
        /\ Len(ListNow) = Len(ListBefore)
        /\ \A i \in 1..Len(ListBefore) :
              ListNow[i] =
                  IF i = FirstMatch(ListBefore, last.id)
                  THEN [ListBefore[i] EXCEPT !.userRating = last.rating]
                  ELSE ListBefore[i]

\* C12 amended: with several entries under one identifier, updateRecipeRating
\* updates the userRating of every one of them and leaves all other entries, and
\* the other fields and the positions of the matching ones, as they were.
C12_EveryDuplicateRated ==
    RateOfDuplicatedId =>
        /\ Len(ListNow) = Len(ListBefore)
        /\ \A i \in 1..Len(ListBefore) :
              ListNow[i] =
                  IF ListBefore[i].id = last.id
                  THEN [ListBefore[i] EXCEPT !.userRating = last.rating]
                  ELSE ListBefore[i]

\* a rating that changes the later of two entries under one identifier
C12_Witness ==
    /\ RateOfDuplicatedId
    /\ \E i \in 1..Len(ListBefore) :
          /\ i # FirstMatch(ListBefore, last.id)
          /\ ListBefore[i].id = last.id
          /\ ListBefore[i].userRating # last.rating
          /\ ListNow[i].userRating = last.rating

UnratedLog(history) == [i \in 1..Len(history) |-> Unrated(history[i])]

Min(a, b) == IF a <= b THEN a ELSE b

\* one step of the store, seen on the stored entries with their ratings set aside
EntriesStayStep ==
    LET before == UnratedLog(ListResult(storage, "none").ret)
        after == UnratedLog(ListResult(storage', "none").ret)
    IN  /\ last'.op \in {"list", "setRating"} => after = before
        /\ (last'.op = "append" /\ last'.retKind = "null") => after = before
        /\ (last'.op = "clear" /\ last'.outcome = "threw") => after = before
        /\ (last'.op = "append" /\ last'.retKind = "item") =>
              /\ Len(after) >= 1
              /\ Tail(after) = SubSeq(before, 1, Min(Len(before), HistoryLimit - 1))

\* C13: an entry of the stored log stays in it, in the same order relative to the
\* other entries, across every operation, unless a save pushes it past position 20
\* or clearHistory is called: getSavedRecipes and updateRecipeRating (successful,
\* no-op or failing) never remove an entry.
C13_EntriesStay == [][EntriesStayStep]_vars

\* a failing rating on a full log, which is still there afterwards
C13_Witness ==
    /\ RateFailed
    /\ Len(ListBefore) = HistoryLimit
    /\ UnratedLog(ListNow) = UnratedLog(ListBefore)

\* C14: in every log reachable from an absent slot through saveRecipeToHistory,
\* updateRecipeRating and clearHistory, no two entries have the same identifier.
C14_IdsUnique ==
    \A i, j \in 1..Len(ListNow) : ListNow[i].id = ListNow[j].id => i = j

\* a full log after an eviction and a rating
C14_Witness ==
    /\ Len(ListNow) = HistoryLimit
    /\ Len(appended) > HistoryLimit
    /\ last.op = "setRating"
    /\ last.fault = "none"

\* every stored entry is unrated or carries one of the ratings 1..5
RatingsInRange ==
    \A i \in 1..Len(ListNow) : ListNow[i].userRating \in ({NoRating} \cup (1..5))

\* one step of the store: an entry that is new to the log is unrated, and a rating
\* changes only by an updateRecipeRating call for that entry's identifier
RatedOnlyBySetRatingStep ==
    LET before == ListResult(storage, "none").ret
        after == ListResult(storage', "none").ret
    IN  \A j \in 1..Len(after) :
           /\ (\A i \in 1..Len(before) : before[i].id # after[j].id) =>
                 /\ after[j].userRating = NoRating
                 /\ last'.op = "append"
           /\ \A i \in 1..Len(before) :
                 (before[i].id = after[j].id /\ before[i].userRating # after[j].userRating) =>
                     /\ last'.op = "setRating"
                     /\ last'.id = after[j].id
                     /\ last'.rating = after[j].userRating

\* C15: every entry of the stored log has userRating absent or an integer from 1 to
\* 5: saveRecipeToHistory creates it with userRating absent, and it stays unrated
\* until an updateRecipeRating call for its identifier, whose rating is one of the
\* five star buttons.
C15_RatingAbsentOrStar == []RatingsInRange /\ [][RatedOnlyBySetRatingStep]_vars

\* one entry rated with five stars next to one that is still unrated
C15_Witness ==
    /\ last.op = "setRating"
    /\ last.rating = 5
    /\ \E i, j \in 1..Len(ListNow) :
          /\ ListNow[i].userRating = 5
          /\ ListNow[i].id = last.id
          /\ ListNow[j].userRating = NoRating

\* the last call is an updateRecipeRating that met no storage fault
RateNoFault == last.op = "setRating" /\ last.fault = "none"

\* the same updateRecipeRating call made once more on the slot as it is now
RateAgain == RateResult(storage, last.id, last.rating, "none")

\* C21: updateRecipeRating is idempotent and round-trip stable: the same call made a
\* second time leaves the stored log as the first call left it and returns the same
\* log; the log a successful call returns is what getSavedRecipes returns right
\* afterwards; and when the rated identifier is that of the newest entry, the first
\* entry of getSavedRecipes carries the rating.
C21_RatingIdempotentAndStable ==
    RateNoFault =>
        /\ RateAgain.storage = storage
        /\ RateAgain.ret = last.ret
        /\ (Parseable(last.pre) \/ ~Truthy(last.pre)) => last.ret = ListNow
        /\ (ListBefore # <<>> /\ ListBefore[1].id = last.id)
              => ListNow[1].userRating = last.rating

\* the newest entry, saved without videos, has just been rated 5 over an older rating
C21_Witness ==
    /\ RateNoFault
    /\ last.rating = 5
    /\ Len(ListBefore) = 2
    /\ ListBefore[1].id = last.id
    /\ ListBefore[1].userRating \notin {NoRating, 5}
    /\ ListBefore[1].videos = <<>>
    /\ ListNow[1].userRating = 5
    /\ last.ret = ListNow

\* C22: in a session where every storage call succeeds, the in-memory savedRecipes
\* list equals what getSavedRecipes returns from storage after every user action, and
\* so never holds more than 20 entries.
C22_ListMatchesStorage ==
    /\ savedRecipes = ListNow
    /\ Len(savedRecipes) <= HistoryLimit

\* the two lists agree for as long as the in-memory one is within the limit
C22_AgreeWithinLimit == Len(savedRecipes) <= HistoryLimit => savedRecipes = ListNow

\* C23: whenever a recipe is on screen with a defined currentSavedId, the history
\* entry with that identifier holds the recipe on screen, so that a rating is never
\* written to the entry of another recipe.
C23_SavedIdMatchesDisplay ==
    (Displayed /\ currentSavedId # NoSavedId)
        => \A i \in 1..Len(ListNow) :
              ListNow[i].id = currentSavedId => ListNow[i].recipe = recipe

\* the step in which the handleSearch call at place n of `searches` runs from its
\* await to its end
FinishStep(n) ==
    /\ n \in 1..Len(searches)
    /\ searches' = RemoveAt(searches, n)

BothCallsSucceeded(search) ==
    /\ search.rc = "resolved"
    /\ search.vc = "resolved"
    /\ search.answer = "chunks"

SaveNeverBlocksDisplayStep ==
    \A n \in 1..Len(searches) :
        (FinishStep(n) /\ BothCallsSucceeded(searches[n]))
            => /\ status' = "SUCCESS"
               /\ recipe' = searches[n].recipe
               /\ videos' = searches[n].videos
               /\ Displayed'
               /\ last'.op = "append"

\* C16: a failed history save inside handleSearch never blocks the display: when both
\* service calls of a search succeeded, handleSearch ends with status SUCCESS and the
\* generated recipe and videos on screen, whether saveRecipeToHistory returned the
\* item or null.
C16_SaveNeverBlocksDisplay == [][SaveNeverBlocksDisplayStep]_vars

\* a search has just ended with its recipe and video on screen although its save failed
C16_Witness ==
    /\ lastUi.handler = "searchFulfilled"
    /\ last.op = "append"
    /\ last.fault = "setItem"
    /\ last.retKind = "null"
    /\ Displayed
    /\ Len(videos) = 1
    /\ ListNow = <<>>

IssuedTogetherStep ==
    Len(searches') > Len(searches)
        => /\ searches'[Len(searches')].rc = "pending"
           /\ searches'[Len(searches')].vc = "pending"

JoinedStep ==
    \A n \in 1..Len(searches) :
        FinishStep(n) => Joined(searches[n].rc, searches[n].vc) # "pending"

RecipeCallFailedStep ==
    \A n \in 1..Len(searches) :
        (FinishStep(n) /\ searches[n].rc = "rejected")
            => /\ status' = "ERROR"
               /\ ~Displayed'
               /\ storage' = storage
               /\ savedRecipes' = savedRecipes

OnlyVideoCallFailedStep ==
    \A n \in 1..Len(searches) :
        (FinishStep(n) /\ searches[n].rc = "resolved" /\ searches[n].answer = "throws")
            => /\ status' = "SUCCESS"
               /\ recipe' = searches[n].recipe
               /\ videos' = <<>>
               /\ Displayed'
               /\ last'.op = "append"
               /\ last'.fault = "none"
                    => /\ ListNow' # <<>>
                       /\ ListNow'[1].query = searches[n].query
                       /\ ListNow'[1].recipe = searches[n].recipe
                       /\ ListNow'[1].videos = <<>>
                       /\ Len(ListNow') = Min(Len(ListNow) + 1, HistoryLimit)

\* C17: the recipe call and the video call of one search are issued together and
\* joined.  When the recipe call fails, handleSearch ends in status ERROR with nothing
\* on screen and the history as it was.  When only the video call fails, it ends in
\* status SUCCESS with the recipe and an empty video list on screen, and it saves the
\* session with an empty video list (the entry is in the log when the save met no
\* storage fault).
C17_CallsJoined ==
    [][IssuedTogetherStep /\ JoinedStep /\ RecipeCallFailedStep /\ OnlyVideoCallFailedStep]_vars

\* one search ended in the catch block and left its message; another, whose video call
\* failed, has just ended with its recipe on screen and its entry saved without videos
C17_Witness ==
    /\ lastUi.handler = "searchFulfilled"
    /\ error = FailedMessage
    /\ Displayed
    /\ videos = <<>>
    /\ last.op = "append"
    /\ last.retKind = "item"
    /\ last.ret.videos = <<>>
    /\ ListNow[1].recipe = recipe

\* the step of a handleSearch call from its start to its return or its await
SubmitStep ==
    /\ lastUi' # lastUi
    /\ lastUi'.handler = "handleSearch"

OfflineOutcome ==
    /\ searches' = searches
    /\ started' = started
    /\ storage' = storage
    /\ savedRecipes' = savedRecipes
    /\ status' = "ERROR"
    /\ error' = OfflineMessage

Settled(n) == Joined(searches[n].rc, searches[n].vc) # "pending"

SomeSettled == \E n \in 1..Len(searches) : Settled(n)

LeavesLoadingStep ==
    \A n \in 1..Len(searches) :
        FinishStep(n)
            => /\ Settled(n)
               /\ status' \in {"SUCCESS", "ERROR"}
               /\ status' = "SUCCESS" => searches[n].rc = "resolved"

\* C24: a search that passed the empty-query and offline checks leaves status LOADING
\* once its service calls have completed: every handleSearch call whose await has
\* settled is resumed; the resumed call sets status to SUCCESS or ERROR, and to
\* SUCCESS only when the recipe call succeeded; and the view is LOADING only while a
\* call is still to be resumed.
C24_SearchLeavesLoading ==
    /\ SomeSettled ~> ~SomeSettled
    /\ [](status = "LOADING" => searches # <<>>)
    /\ [][LeavesLoadingStep]_vars

\* a search whose recipe call failed has been resumed and has left LOADING for ERROR
C24_Witness ==
    /\ lastUi.handler = "searchRejected"
    /\ status = "ERROR"
    /\ error = FailedMessage
    /\ started >= 1
    /\ searches = <<>>

\* the request belongs to the effect the view is in now
Current(request) == display.mounted /\ request.effect = display.effect

\* the step in which the fetchImage call at place k runs from its await to its end
ImageSettleStep(k) ==
    /\ k \in 1..Len(imageRequests)
    /\ imageRequests' = RemoveAt(imageRequests, k)

LateResultStep ==
    \A k \in 1..Len(imageRequests) :
        (ImageSettleStep(k) /\ ~Current(imageRequests[k]))
            => /\ display'.mounted = display.mounted
               /\ display'.heroImage = display.heroImage
               /\ display'.isGeneratingImage = display.isGeneratingImage

ImageOfTitleOnScreen ==
    display.mounted =>
        /\ display.heroImage[2] = display.title
        /\ (\E k \in 1..Len(imageRequests) : Current(imageRequests[k]))
              => /\ display.isGeneratingImage
                 /\ display.heroImage = Placeholder(display.title)

\* C25: in the detail view, the result of an image request issued for one recipe title
\* is never applied after the view has gone on to another title, another online flag
\* or has unmounted: a late result changes neither the hero image nor the loading
\* flag, so the image on screen is always one of the title on screen, and while the
\* newest request is pending the loading flag is set and the placeholder is shown.
C25_LateImageDropped == []ImageOfTitleOnScreen /\ [][LateResultStep]_vars

\* a late result has just been dropped while the request of the title now on screen
\* is still pending
C25_Witness ==
    /\ display.lastResult = "dropped"
    /\ display.mounted
    /\ display.isOnline
    /\ display.isGeneratingImage
    /\ display.heroImage = Placeholder(display.title)
    /\ Len(imageRequests) = 1
    /\ Current(imageRequests[1])

Uris(items) == [i \in 1..Len(items) |-> items[i].uri]

\* the URIs of a sequence, each at its first occurrence
RECURSIVE FirstOccurrences(_)
FirstOccurrences(us) ==
    IF us = <<>> THEN <<>>
    ELSE LET rest == FirstOccurrences(SubSeq(us, 1, Len(us) - 1))
             u == us[Len(us)]
         IN  IF \E i \in 1..Len(rest) : rest[i] = u THEN rest ELSE Append(rest, u)

\* the links findRecipeVideos accepts from the response, in order
Candidates == SelectSeq(chunks, Accepted)

\* C19: for every sequence of link candidates, findRecipeVideos returns at most 4
\* results, no two with the same URI; candidates with one URI collapse to a single
\* result at the position of the first occurrence.
C19_VideosDedupedAndCapped ==
    lookup.pc = "chunks" =>
        LET firsts == FirstOccurrences(Uris(Candidates))
        IN  /\ Len(lookup.results) <= 4
            /\ \A i, j \in 1..Len(lookup.results) :
                  lookup.results[i].uri = lookup.results[j].uri => i = j
            /\ Len(lookup.results) = Min(Len(firsts), 4)
            /\ \A i \in 1..Len(lookup.results) : lookup.results[i].uri = firsts[i]

\* five candidates, two of them one URI under different titles with another link
\* between them: four results, the shared URI first
C19_Witness ==
    /\ lookup.pc = "chunks"
    /\ Len(Candidates) = 5
    /\ Len(lookup.results) = 4
    /\ Candidates[1].uri = Candidates[3].uri
    /\ Candidates[1].title # Candidates[3].title
    /\ lookup.results[1].uri = Candidates[1].uri
    /\ lookup.results[2].uri = Candidates[2].uri

\* both sessions have read and written, and both reads came before both writes
BothReadThenBothWrote ==
    /\ Len(events) = 4
    /\ events[1].what = "read" /\ events[2].what = "read"
    /\ events[3].what = "write" /\ events[4].what = "write"

FirstWriter == events[3].tab
SecondWriter == events[4].tab

\* the log with the change of session `tab` alone applied to what was stored before
ChangeAlone(tab, text) ==
    IF tab.op = "append"
    THEN <<tab.item[1]>> \o Parse(text)
    ELSE [i \in 1..Len(Parse(text)) |->
            IF Parse(text)[i].id = tab.id
            THEN [Parse(text)[i] EXCEPT !.userRating = tab.rating]
            ELSE Parse(text)[i]]

\* C20: the store's mutations have no protection against a concurrent writer: when
\* two sessions each read the log and then each write back their changed copy, both
\* reads before both writes, the stored log is the second writer's whole blob and
\* the first writer's change (a saved entry or a rating) is lost.
C20_LastWriteWins ==
    BothReadThenBothWrote =>
        LET first == tabs[FirstWriter]
            second == tabs[SecondWriter]
        IN  /\ ListNow = ChangeAlone(second, first.copy)
            /\ first.op = "append" =>
                  \A i \in 1..Len(ListNow) : ListNow[i].id # first.id
            /\ (first.op = "setRating" /\ ~(second.op = "setRating" /\ second.id = first.id)) =>
                  \A i \in 1..Len(ListNow), k \in 1..Len(Parse(first.copy)) :
                     (ListNow[i].id = first.id /\ Parse(first.copy)[k].id = first.id) =>
                        ListNow[i].userRating = Parse(first.copy)[k].userRating

\* the first writer's rating of entry 1 is gone after the second writer's save
C20_Witness ==
    /\ BothReadThenBothWrote
    /\ tabs[FirstWriter].op = "setRating"
    /\ tabs[FirstWriter].id = 1
    /\ tabs[FirstWriter].rating = 5
    /\ tabs[SecondWriter].op = "append"
    /\ Len(ListNow) = 3
    /\ ListNow[3].id = 1
    /\ ListNow[3].userRating # 5

====
